---- MODULE Spec2Model ----
(***************************************************************************)
(* firkin: raw single-channel images (owned and memory-mapped), pixel      *)
(* addressing and the bilinear sampler.                                    *)
(*                                                                         *)
(* Pixel samples are integers.  An f32 sample is carried as its IEEE-754   *)
(* bit pattern read as a signed 32-bit integer, so that the byte-level     *)
(* reinterpretation done by map_file is the same for i32 and f32 and only  *)
(* the conversion from an integer (from_isize) differs.                    *)
(* Fractional pixel distances (DistPxFrac) are carried as integers in      *)
(* units of 1/Sub pixel; every f64 operation of the sampler is exact on    *)
(* these values, so the arithmetic below is the arithmetic of the code.    *)
(***************************************************************************)
EXTENDS Integers, Sequences, FiniteSets, TLC

\* ------------------------------------------------------------------ bounds
\* Largest width and height of an image handled by the image layer.
MaxDim == 2
\* Largest number of pixel samples written to a backing file.
MaxFilePixels == 4

\* Largest width and height of an image handed to the sampler.
MaxSampleDim == 3
\* Sample coordinates are the multiples of 1/Sub pixel.
Sub == 4

\* Width of the destination strip filled by resampling.
MaxDst == 2
\* Largest magnitude of a bare number given a unit.
MaxUnit == 4

\* Integers callers store in the pixels of an owned image.
SampleInts == {0, 1024}
\* Integers written as samples to a backing file (negative, zero, positive).
FileInts == {-3, 0, 1000}
\* The i16 intensities of a sampled image (negative, zero, positive).
PixelValues == {-3, 0, 1024}
\* A stray byte appended to a file to make its length disagree.
StrayBytes == {<<>>, <<1>>}

PixelTypes == {"i16", "i32", "f32"}

VARIABLES
    kind,     \* what the handle holds: "none" before construction, "owned",
              \* "mapped", "failed" (map_file returned Err), "panicked"
    ptype,    \* the PixelType parameter of the image
    width,    \* OwnedImage.width / MemoryMappedImage.width     (bare pixels)
    height,   \* OwnedImage.height / MemoryMappedImage.height
    pixels,   \* OwnedImage.pixels / MemoryMappedImage.pixels
    mem,      \* MemoryMappedImage.mem: the mapped bytes (<<>> when owned)
    written,  \* the samples written to the backing file before it was mapped
    given,    \* the <<width, height>> handed to the constructor
    last,     \* the last operation, its arguments and its result
    smp,      \* the last call of sample_image: arguments, taps, result
    dst,      \* the results of a series of sampler calls on the current image
    unit      \* a bare number, the value tagged with PX, the value untagged

vars ==
    <<kind, ptype, width, height, pixels, mem, written, given, last, smp,
      dst, unit>>

\* ------------------------------------------------------------ pixel types
\* mem::size_of::<PixelType>()
SizeOf(pt) == IF pt = "i16" THEN 2 ELSE 4

\* PixelType::zero()
Zero(pt) == 0

RECURSIVE Log2(_)
Log2(n) == IF n <= 1 THEN 0 ELSE 1 + Log2(n \div 2)

\* n as f32, as the bit pattern of the result read as an i32 (exact for
\* |n| < 2^24): sign, biased exponent, 23-bit mantissa.
F32Bits(n) ==
    LET m == IF n < 0 THEN -n ELSE n
        e == Log2(m)
        mag == IF m = 0 THEN 0 ELSE (127 + e) * (2^23) + (m - 2^e) * (2^(23 - e))
    IN IF n < 0 THEN (mag - 2147483647) - 1 ELSE mag

\* PixelType::from_isize(n).unwrap()
FromIsize(pt, n) == IF pt = "f32" THEN F32Bits(n) ELSE n

\* Pixel::bytes: the native (little-endian) bytes of one sample.
Bytes(pt, v) ==
    IF pt = "i16"
    THEN <<v % 256, (v \div 256) % 256>>
    ELSE <<v % 256, (v \div 256) % 256, (v \div 65536) % 256,
           (v \div 16777216) % 256>>

\* The sample a run of size_of::<PixelType>() mapped bytes is read as.
FromBytesMutant(pt, b) ==
    IF pt = "i16"
    THEN b[2] + 256 * (IF b[1] < 128 THEN b[1] ELSE b[1] - 256)
    ELSE b[4] + 256 * b[3] + 65536 * b[2]
         + 16777216 * (IF b[1] < 128 THEN b[1] ELSE b[1] - 256)
FromBytes(pt, b) ==
    IF pt = "i16"
    THEN b[1] + 256 * (IF b[2] < 128 THEN b[2] ELSE b[2] - 256)
    ELSE b[1] + 256 * b[2] + 65536 * b[3]
         + 16777216 * (IF b[4] < 128 THEN b[4] ELSE b[4] - 256)

\* ----------------------------------------------------------- owned image
\* OwnedImage::new: the buffer of (width * height) zero samples.
NewPixelsMutant(pt, w, h) == [i \in 1..(w + h) |-> Zero(pt)]
NewPixels(pt, w, h) == [i \in 1..(w * h) |-> Zero(pt)]

\* Index::index: the offset of (x, y) in the row-major buffer.
IndexOffset(w, x, y) == (y * w) + x

\* IndexMut::index_mut: the offset of (x, y) in the row-major buffer.
IndexMutOffsetMutant(w, x, y) == (x * w) + y
IndexMutOffset(w, x, y) == (y * w) + x

\* The slice access &self.pixels[offset]; an offset outside the buffer
\* (a negative one wraps to a huge usize) panics.
InSlice(px, offset) == offset >= 0 /\ offset < Len(px)

\* Image::dimensions
dimensions == <<width, height>>

\* img[(x, y)] on an image of width w holding px; used where it does not panic.
IndexOf(px, w, x, y) == px[IndexOffset(w, x, y) + 1]

\* img[(x, y)] on the current image.
Index(x, y) == IndexOf(pixels, width, x, y)

InBounds(x, y) == x >= 0 /\ x < width /\ y >= 0 /\ y < height

Op(op, x, y, v, ok) == [op |-> op, x |-> x, y |-> y, v |-> v, ok |-> ok]

\* ------------------------------------------------------- bilinear sampler
\* i16::max_value()
I16Max == 32767

\* f64::floor of u / Sub, then `as isize`.
Floor(u) == u \div Sub

\* num::clamp
ClampMutant(x, lo, hi) == IF x > hi THEN hi ELSE x
Clamp(x, lo, hi) == IF x < lo THEN lo ELSE IF x > hi THEN hi ELSE x

\* f64::round of n / d (d > 0): to nearest, halves away from zero.
RoundMutant(n, d) == n \div d
Round(n, d) ==
    IF n >= 0 THEN ((2 * n) + d) \div (2 * d)
    ELSE -(((2 * (-n)) + d) \div (2 * d))

\* `as i16` of an integral f64.
AsI16(n) == Clamp(n, -I16Max - 1, I16Max)

\* pixel_or_black: the stored pixel, or zero for a coordinate off the image.
PixelOrBlackMutant(w, h, px, x, y) ==
    IndexOf(px, w, Clamp(x, 0, w - 1), Clamp(y, 0, h - 1))
pixel_or_black(w, h, px, x, y) ==
    IF (x < 0) \/ (y < 0) \/ (x >= w) \/ (y >= h)
    THEN 0
    ELSE IndexOf(px, w, x, y)

\* The raw accesses img[(x, y)] pixel_or_black makes for the tap (x, y).
RawAccessMutant(w, h, x, y) ==
    IF (x < 0) \/ (y < 0) \/ (x > w) \/ (y > h) THEN {} ELSE {<<x, y>>}
RawAccess(w, h, x, y) ==
    IF (x < 0) \/ (y < 0) \/ (x >= w) \/ (y >= h) THEN {} ELSE {<<x, y>>}

\* The combination of the four taps, in units of 1 / Sub^2.
CombineSwapped(a, b, c, d, col_1_contrib, row_1_contrib) ==
    LET col_0_contrib == Sub - col_1_contrib
        row_0_contrib == Sub - row_1_contrib
    IN ((a * col_1_contrib + b * col_0_contrib) * row_0_contrib)
       + ((c * col_1_contrib + d * col_0_contrib) * row_1_contrib)
CombineSlip(a, b, c, d, col_1_contrib, row_1_contrib) ==
    LET col_0_contrib == Sub - col_1_contrib
        row_0_contrib == Sub - col_1_contrib
    IN ((a * col_0_contrib + b * col_1_contrib) * row_0_contrib)
       + ((c * col_0_contrib + d * col_1_contrib) * row_1_contrib)
Combine(a, b, c, d, col_1_contrib, row_1_contrib) ==
    LET col_0_contrib == Sub - col_1_contrib
        row_0_contrib == Sub - row_1_contrib
    IN ((a * col_0_contrib + b * col_1_contrib) * row_0_contrib)
       + ((c * col_0_contrib + d * col_1_contrib) * row_1_contrib)

\* sample_image(i, u, v) on an image of w x h pixels px; u and v in 1/Sub pixel.
sample_image(w, h, px, u, v) ==
    LET x0 == Floor(u)
        y0 == Floor(v)
        col_1_contrib == u - (x0 * Sub)
        row_1_contrib == v - (y0 * Sub)
        a == pixel_or_black(w, h, px, x0, y0)
        b == pixel_or_black(w, h, px, x0 + 1, y0)
        c == pixel_or_black(w, h, px, x0, y0 + 1)
        d == pixel_or_black(w, h, px, x0 + 1, y0 + 1)
        new_pixel == Combine(a, b, c, d, col_1_contrib, row_1_contrib)
    IN [done |-> TRUE, u |-> u, v |-> v, a |-> a, b |-> b, c |-> c, d |-> d,
        raw |-> RawAccess(w, h, x0, y0) \cup RawAccess(w, h, x0 + 1, y0)
                \cup RawAccess(w, h, x0, y0 + 1)
                \cup RawAccess(w, h, x0 + 1, y0 + 1),
        rval |-> AsI16(Round(Clamp(new_pixel, 0, I16Max * Sub * Sub), Sub * Sub))]

NoSample ==
    [done |-> FALSE, u |-> 0, v |-> 0, a |-> 0, b |-> 0, c |-> 0, d |-> 0,
     raw |-> {}, rval |-> 0]

\* let rval = sample_image(&img, u, v) on the current i16 image.
Sample(u, v) ==
    /\ kind \in {"owned", "mapped"}
    /\ ptype = "i16"
    /\ ~smp.done
    /\ smp' = sample_image(width, height, pixels, u, v)
    /\ UNCHANGED <<kind, ptype, width, height, pixels, mem, written, given, last,
                 dst, unit>>

\* No destination image: nothing is being resampled.
NoDst == [px |-> <<>>, todo |-> {}, stride |-> 0, du |-> 0, dv |-> 0]

\* No number has been given a unit.
NoBare == [ty |-> "isize", num |-> 0, nan |-> FALSE]
NoUnit ==
    [phase |-> "idle", bare |-> NoBare,
     tagged |-> [value_unsafe |-> NoBare, dim |-> "px"], out |-> NoBare]

Init ==
    /\ kind = "none"
    /\ ptype = "i16"
    /\ width = 0
    /\ height = 0
    /\ pixels = <<>>
    /\ mem = <<>>
    /\ written = <<>>
    /\ given = <<0, 0>>
    /\ last = Op("init", 0, 0, 0, TRUE)
    /\ smp = NoSample
    /\ dst = NoDst
    /\ unit = NoUnit

\* OwnedImage::<pt>::new(w * PX, h * PX)
New(pt, w, h) ==
    /\ kind = "none"
    /\ kind' = "owned"
    /\ ptype' = pt
    /\ width' = w
    /\ height' = h
    /\ pixels' = NewPixels(pt, w, h)
    /\ mem' = <<>>
    /\ written' = <<>>
    /\ given' = <<w, h>>
    /\ last' = Op("new", w, h, 0, TRUE)
    /\ UNCHANGED <<smp, dst, unit>>

\* img[(x * PX, y * PX)] = v on an owned image (IndexMut).
IndexMut(x, y, v) ==
    /\ kind = "owned"
    /\ LET offset == IndexMutOffset(width, x, y)
       IN IF InSlice(pixels, offset)
          THEN /\ pixels' = [pixels EXCEPT ![offset + 1] = v]
               /\ last' = Op("write", x, y, v, TRUE)
               /\ UNCHANGED kind
          ELSE /\ kind' = "panicked"
               /\ last' = Op("write", x, y, v, FALSE)
               /\ UNCHANGED pixels
    /\ UNCHANGED <<ptype, width, height, mem, written, given, smp,
                 dst, unit>>

\* let v = img[(x * PX, y * PX)] on an owned or a mapped image (Index).
IndexRead(x, y) ==
    /\ kind \in {"owned", "mapped"}
    /\ LET offset == IndexOffset(width, x, y)
       IN IF InSlice(pixels, offset)
          THEN /\ last' = Op("read", x, y, pixels[offset + 1], TRUE)
               /\ UNCHANGED kind
          ELSE /\ kind' = "panicked"
               /\ last' = Op("read", x, y, 0, FALSE)
    /\ UNCHANGED <<ptype, width, height, pixels, mem, written, given, smp,
                 dst, unit>>

\* MutableImage::fill(v)
FillPixelsMutant(px, v) == [i \in 1..(Len(px) - 1) |-> v]
FillPixelsSkip(px, v) == [i \in 1..Len(px) |-> IF i = 1 THEN px[i] ELSE v]
FillPixels(px, v) == [i \in 1..Len(px) |-> v]

Fill(v) ==
    /\ kind = "owned"
    /\ pixels' = FillPixels(pixels, v)
    /\ last' = Op("fill", 0, 0, v, TRUE)
    /\ UNCHANGED <<kind, ptype, width, height, mem, written, given, smp,
                 dst, unit>>

\* ---------------------------------------------------- memory-mapped image
\* make_test_image: the file holding the native bytes of each sample in turn.
RECURSIVE FileBytes(_, _)
FileBytes(pt, samples) ==
    IF samples = <<>> THEN <<>>
    ELSE Bytes(pt, Head(samples)) \o FileBytes(pt, Tail(samples))

\* map_file's size check: the byte length the declared dimensions call for.
ExpectedSizeMutant(pt, w, h) == w * h
ExpectedSize(pt, w, h) == (w * h) * SizeOf(pt)

\* slice::from_raw_parts(map.ptr() as *const PixelType, map.len() / size_of):
\* the mapped bytes read as samples, without copying.
MappedPixels(pt, bytes) ==
    [i \in 1..(Len(bytes) \div SizeOf(pt)) |->
        FromBytes(pt, SubSeq(bytes, (i - 1) * SizeOf(pt) + 1, i * SizeOf(pt)))]

\* MemoryMappedImage::<pt>::map_file(path, w * PX, h * PX), the file at path
\* holding `bytes`; `opens` is the outcome of Mmap::open_path.
MapFile(pt, samples, bytes, opens, w, h) ==
    /\ kind = "none"
    /\ ptype' = pt
    /\ given' = <<w, h>>
    /\ UNCHANGED <<smp, dst, unit>>
    /\ IF opens /\ Len(bytes) = ExpectedSize(pt, w, h)
       THEN /\ kind' = "mapped"
            /\ width' = w
            /\ height' = h
            /\ mem' = bytes
            /\ pixels' = MappedPixels(pt, bytes)
            /\ written' = samples
            /\ last' = Op("map_file", w, h, Len(bytes), TRUE)
       ELSE /\ kind' = "failed"
            /\ last' = Op("map_file", w, h, Len(bytes), FALSE)
            /\ UNCHANGED <<width, height, mem, pixels, written>>

Dims == 0..MaxDim
Coords == (-1)..MaxDim

RECURSIVE SeqsUpTo(_, _)
SeqsUpTo(S, n) ==
    IF n = 0 THEN {<<>>}
    ELSE LET shorter == SeqsUpTo(S, n - 1)
         IN shorter \cup {Append(q, e) : q \in shorter, e \in S}

\* The integers a producer converts to samples and writes to a backing file.
FileSamples == SeqsUpTo(FileInts, MaxFilePixels)

Next ==
    \/ \E pt \in PixelTypes, w \in Dims, h \in Dims : New(pt, w, h)
    \/ \E x \in Coords, y \in Coords, n \in SampleInts :
          IndexMut(x, y, FromIsize(ptype, n))
    \/ \E x \in Coords, y \in Coords : IndexRead(x, y)
    \/ \E n \in SampleInts : Fill(FromIsize(ptype, n))
    \/ /\ kind = "none"
       /\ \E pt \in PixelTypes, samples \in FileSamples, stray \in StrayBytes :
             \E w \in Dims, h \in Dims, opens \in BOOLEAN :
                LET file == [i \in 1..Len(samples) |-> FromIsize(pt, samples[i])]
                IN MapFile(pt, file, FileBytes(pt, file) \o stray, opens, w, h)

Spec == Init /\ [][Next]_vars

\* ------------------------------------------------ sampling a built image
\* The images the sampler is run on, built as the sampling tests build them:
\* an owned i16 image of w x h pixels, filled with one value and then written
\* at one coordinate.
SampleDims == 1..MaxSampleDim

Spotted(w, h) ==
    {[FillPixels(NewPixels("i16", w, h), f)
         EXCEPT ![IndexMutOffset(w, x, y) + 1] = p] :
        f \in PixelValues, x \in 0..(w - 1), y \in 0..(h - 1), p \in PixelValues}

InitSample ==
    /\ kind = "owned"
    /\ ptype = "i16"
    /\ width \in SampleDims
    /\ height \in SampleDims
    /\ pixels \in Spotted(width, height)
    /\ mem = <<>>
    /\ written = <<>>
    /\ given = <<width, height>>
    /\ last = Op("init", 0, 0, 0, TRUE)
    /\ smp = NoSample
    /\ dst = NoDst
    /\ unit = NoUnit

\* Sample coordinates from just left of pixel -1 to just right of the image.
SampleCoords(n) == (-Sub - 1)..((n * Sub) + 1)

NextSample ==
    /\ ~smp.done
    /\ \E u \in SampleCoords(width), v \in SampleCoords(height) : Sample(u, v)

SpecSample == InitSample /\ [][NextSample]_vars

\* ------------------------------------- a series of calls on one image
\* map_dst_pixel: the source position of destination pixel (x, 0), in 1/Sub
\* pixel.  The source's placeholder returns (0.0, 0.0) for every pixel
\* (stride 0, no offset); the sampling loops step along one axis from an
\* offset.
map_dst_pixel(x) == <<(x * dst.stride) + dst.du, dst.dv>>

\* The destination pixels computed so far.
Computed(d) == (0..(Len(d.px) - 1)) \ d.todo

\* let rval = sample_image(&img, u, v) for destination pixel x, any pixel not
\* yet computed: the sampler reads the source through a shared reference and
\* the caller keeps the result.
ResampleMutant(x) ==
    /\ x \in dst.todo
    /\ smp' = sample_image(width, height, pixels,
                           map_dst_pixel(x)[1], map_dst_pixel(x)[2])
    /\ dst' = [dst EXCEPT !.px[x + 1] = smp'.rval,
                          !.todo = @ \ {x}]
    /\ pixels' = [pixels EXCEPT ![1] = smp'.rval]
    /\ UNCHANGED <<kind, ptype, width, height, mem, written, given, last, unit>>
Resample(x) ==
    /\ x \in dst.todo
    /\ smp' = sample_image(width, height, pixels,
                           map_dst_pixel(x)[1], map_dst_pixel(x)[2])
    /\ dst' = [dst EXCEPT !.px[x + 1] = smp'.rval,
                          !.todo = @ \ {x}]
    /\ UNCHANGED <<kind, ptype, width, height, pixels, mem, written, given,
                   last, unit>>

\* Steps between successive source positions: none (every destination pixel
\* maps to one position), a fraction of a pixel, a whole pixel.
Strides == {0, 1, Sub}

\* Offsets of the source position: left of the image, on a pixel centre,
\* between pixel centres.
Shifts == {-1, 0, Sub \div 2}

InitResample ==
    /\ kind = "owned"
    /\ ptype = "i16"
    /\ width \in SampleDims
    /\ height \in SampleDims
    /\ pixels \in Spotted(width, height)
    /\ mem = <<>>
    /\ written = <<>>
    /\ given = <<width, height>>
    /\ last = Op("init", 0, 0, 0, TRUE)
    /\ smp = NoSample
    /\ unit = NoUnit
    /\ \E stride \in Strides, du \in Shifts, dv \in Shifts :
          dst = [px |-> [x \in 1..MaxDst |-> 0], todo |-> 0..(MaxDst - 1),
                 stride |-> stride, du |-> du, dv |-> dv]

NextResample == \E x \in dst.todo : Resample(x)

SpecResample == InitResample /\ [][NextResample]_vars

\* ------------------------------------------------------------ pixel units
\* T * PX: Pixel::new(self)
MulPX(n) == [value_unsafe |-> n, dim |-> "px"]

\* Pixel<T> / PX: self.value_unsafe
DivPXMutant(p) == [p.value_unsafe EXCEPT !.num = 1]
DivPX(p) == p.value_unsafe

\* The types define_conversion! is instantiated for.
IntTypes == {"i32", "i64", "isize"}
FloatTypes == {"f32", "f64"}

\* Bare numbers: integers, and floats in units of 1/Sub, and the float NaN.
BareNumbers ==
    [ty : IntTypes \cup FloatTypes, num : (-MaxUnit)..MaxUnit, nan : {FALSE}]
    \cup [ty : FloatTypes, num : {0}, nan : {TRUE}]

InitUnits ==
    /\ kind = "none"
    /\ ptype = "i16"
    /\ width = 0
    /\ height = 0
    /\ pixels = <<>>
    /\ mem = <<>>
    /\ written = <<>>
    /\ given = <<0, 0>>
    /\ last = Op("init", 0, 0, 0, TRUE)
    /\ smp = NoSample
    /\ dst = NoDst
    /\ \E n \in BareNumbers : unit = [NoUnit EXCEPT !.phase = "bare", !.bare = n]

\* let x = n * PX
Tag ==
    /\ unit.phase = "bare"
    /\ unit' = [unit EXCEPT !.phase = "tagged", !.tagged = MulPX(unit.bare)]
    /\ UNCHANGED <<kind, ptype, width, height, pixels, mem, written, given,
                   last, smp, dst>>

\* x / PX
Untag ==
    /\ unit.phase = "tagged"
    /\ unit' = [unit EXCEPT !.phase = "untagged", !.out = DivPX(unit.tagged)]
    /\ UNCHANGED <<kind, ptype, width, height, pixels, mem, written, given,
                   last, smp, dst>>

NextUnits == Tag \/ Untag

SpecUnits == InitUnits /\ [][NextUnits]_vars

\* ------------------------------------------------------------- properties
OnImage == {<<x, y>> \in (0..(width - 1)) \X (0..(height - 1)) : TRUE}

\* The pixel stored at (x, y), and zero for a coordinate off the image.
Stored(x, y) == IF <<x, y>> \in OnImage THEN pixels[(y * width) + x + 1] ELSE 0

\* r is n / d (d > 0) rounded to the nearest integer, halves away from zero.
Nearest(n, d, r) ==
    IF n >= 0
    THEN (2 * d * r) <= (2 * n) + d /\ (2 * n) + d < 2 * d * (r + 1)
    ELSE (2 * d * (-r)) <= (2 * (-n)) + d /\ (2 * (-n)) + d < 2 * d * ((-r) + 1)

\* n limited to the range 0 .. top.
Limited(n, top) == IF n < 0 THEN 0 ELSE IF n > top THEN top ELSE n

\* The result of the sampler on the current image with pixel (x, y) set to p.
ResampledWith(x, y, p) ==
    sample_image(width, height, [pixels EXCEPT ![(y * width) + x + 1] = p],
                 smp.u, smp.v).rval

\* The sample is at the centre of pixel <<smp.u \div Sub, smp.v \div Sub>>.
AtPixelCentre ==
    /\ smp.done
    /\ smp.u % Sub = 0
    /\ smp.v % Sub = 0
    /\ <<smp.u \div Sub, smp.v \div Sub>> \in OnImage

\* C1 as stated: sample_image at an integer coordinate on the image returns
\* exactly the i16 value stored there, for every i16 value.
C1_IdentitySampleAnyValue ==
    AtPixelCentre => smp.rval = Stored(smp.u \div Sub, smp.v \div Sub)

\* C1 as amended: sample_image at an integer coordinate on the image
\* (border pixels included) returns exactly the value stored there when that
\* value is in 0..=32767, and 0 when it is negative, whatever the other
\* pixels hold.
C1_IdentitySample ==
    AtPixelCentre =>
        LET p == Stored(smp.u \div Sub, smp.v \div Sub)
        IN smp.rval = IF p >= 0 THEN p ELSE 0

C1_Witness ==
    /\ AtPixelCentre
    /\ width = 3
    /\ height = 3
    /\ <<smp.u, smp.v>> = <<2 * Sub, 2 * Sub>>
    /\ Stored(2, 2) = 1024
    /\ Stored(1, 2) = -3
    /\ smp.rval = 1024

\* C2: each of the four taps (x0, y0), (x0+1, y0), (x0, y0+1), (x0+1, y0+1)
\* that lies off the image contributes zero to the combination, and each tap
\* on the image contributes the stored pixel, for negative coordinates and
\* for coordinates past the right and bottom edges alike.
C2_EdgePolicy ==
    smp.done =>
        LET x0 == smp.u \div Sub
            y0 == smp.v \div Sub
            fx == smp.u - (x0 * Sub)
            fy == smp.v - (y0 * Sub)
            n == ((Stored(x0, y0) * (Sub - fx) + Stored(x0 + 1, y0) * fx)
                     * (Sub - fy))
                 + ((Stored(x0, y0 + 1) * (Sub - fx)
                     + Stored(x0 + 1, y0 + 1) * fx) * fy)
        IN /\ smp.a = Stored(x0, y0)
           /\ smp.b = Stored(x0 + 1, y0)
           /\ smp.c = Stored(x0, y0 + 1)
           /\ smp.d = Stored(x0 + 1, y0 + 1)
           /\ Nearest(Limited(n, 32767 * Sub * Sub), Sub * Sub, smp.rval)

C2_Witness ==
    /\ smp.done
    /\ width = 2
    /\ height = 2
    /\ pixels = <<1024, 1024, 1024, 0>>
    /\ <<smp.u, smp.v>> = <<-1, Sub + 2>>
    /\ <<smp.a, smp.b, smp.c, smp.d>> = <<0, 1024, 0, 0>>
    /\ smp.rval = 384

\* The sample lies on row smp.v \div Sub of the image, at any abscissa.
OnRow == smp.done /\ smp.v % Sub = 0 /\ (smp.v \div Sub) \in 0..(height - 1)

\* The sample lies on column smp.u \div Sub of the image, at any ordinate.
OnColumn == smp.done /\ smp.u % Sub = 0 /\ (smp.u \div Sub) \in 0..(width - 1)

\* The interpolated value along the row (in units of 1 / Sub).
AlongRow ==
    LET x0 == smp.u \div Sub
        f == smp.u - (x0 * Sub)
        y == smp.v \div Sub
    IN (Stored(x0, y) * (Sub - f)) + (Stored(x0 + 1, y) * f)

\* The interpolated value along the column (in units of 1 / Sub).
AlongColumn ==
    LET y0 == smp.v \div Sub
        f == smp.v - (y0 * Sub)
        x == smp.u \div Sub
    IN (Stored(x, y0) * (Sub - f)) + (Stored(x, y0 + 1) * f)

\* The result does not change when a pixel of the row below the sampled row
\* (of the column right of the sampled column) is overwritten.
IgnoresNextRow ==
    \A c \in OnImage, p \in PixelValues :
        c[2] = (smp.v \div Sub) + 1 => ResampledWith(c[1], c[2], p) = smp.rval

IgnoresNextColumn ==
    \A c \in OnImage, p \in PixelValues :
        c[1] = (smp.u \div Sub) + 1 => ResampledWith(c[1], c[2], p) = smp.rval

\* C9 as stated: on an integer row y of the image, sample_image(x0 + f, y)
\* is P(x0, y) * (1 - f) + P(x0 + 1, y) * f rounded to nearest and does not
\* depend on row y + 1; symmetrically on an integer column.
C9_AxisInterpolationUnclamped ==
    /\ OnRow => Nearest(AlongRow, Sub, smp.rval) /\ IgnoresNextRow
    /\ OnColumn => Nearest(AlongColumn, Sub, smp.rval) /\ IgnoresNextColumn

\* C9 as amended: on an integer row y of the image, sample_image(x0 + f, y)
\* is P(x0, y) * (1 - f) + P(x0 + 1, y) * f limited to 0..=32767 and then
\* rounded to nearest, and does not depend on row y + 1; symmetrically on an
\* integer column.
C9_AxisInterpolation ==
    /\ OnRow => /\ Nearest(Limited(AlongRow, 32767 * Sub), Sub, smp.rval)
                /\ IgnoresNextRow
    /\ OnColumn => /\ Nearest(Limited(AlongColumn, 32767 * Sub), Sub, smp.rval)
                   /\ IgnoresNextColumn

C9_Witness ==
    /\ OnRow
    /\ width = 3
    /\ height = 3
    /\ pixels = <<1024, 1024, 1024, 0, 1024, 1024, 1024, 1024, 1024>>
    /\ <<smp.u, smp.v>> = <<1, Sub>>
    /\ smp.rval = 256

\* The four taps of the sample are on the image and store the same value.
FourEqualTaps ==
    LET x0 == smp.u \div Sub
        y0 == smp.v \div Sub
    IN /\ smp.done
       /\ <<x0, y0>> \in OnImage
       /\ <<x0 + 1, y0 + 1>> \in OnImage
       /\ Stored(x0 + 1, y0) = Stored(x0, y0)
       /\ Stored(x0, y0 + 1) = Stored(x0, y0)
       /\ Stored(x0 + 1, y0 + 1) = Stored(x0, y0)

\* The result does not change when a pixel other than the four taps is
\* overwritten.
IgnoresOtherPixels ==
    LET x0 == smp.u \div Sub
        y0 == smp.v \div Sub
    IN \A c \in OnImage, p \in PixelValues :
          (c[1] \notin {x0, x0 + 1} \/ c[2] \notin {y0, y0 + 1}) =>
              ResampledWith(c[1], c[2], p) = smp.rval

\* C10 as stated: when the four taps are on the image and all store the
\* same value c, sample_image returns c for every offset inside the cell,
\* whatever the pixels outside the four taps hold.
C10_EqualTapsAnyValue ==
    FourEqualTaps =>
        /\ smp.rval = Stored(smp.u \div Sub, smp.v \div Sub)
        /\ IgnoresOtherPixels

\* C10 as amended: when the four taps are on the image and all store the
\* same value c, sample_image returns c when c is in 0..=32767, and 0 when
\* c is negative, for every offset inside the cell, whatever the pixels
\* outside the four taps hold.
C10_EqualTaps ==
    FourEqualTaps =>
        LET c == Stored(smp.u \div Sub, smp.v \div Sub)
        IN /\ smp.rval = IF c >= 0 THEN c ELSE 0
           /\ IgnoresOtherPixels

C10_Witness ==
    /\ FourEqualTaps
    /\ width = 3
    /\ height = 3
    /\ pixels = <<-3, 1024, 1024, 1024, 1024, 1024, 1024, 1024, 1024>>
    /\ <<smp.u, smp.v>> = <<Sub + 2, Sub + 1>>
    /\ smp.rval = 1024

\* C3: map_file returns an error and no image whenever the byte length of
\* the file differs from width * height * size_of(pixel type), for the
\* integer and the float pixel types; it returns an image only when the
\* two lengths are equal.
C3_MapFileSizeCheck ==
    last.op = "map_file" =>
        LET size == IF ptype = "i16" THEN 2 ELSE 4
            expected == given[1] * given[2] * size
        IN /\ (last.v # expected =>
                  ~last.ok /\ kind = "failed" /\ pixels = <<>> /\ mem = <<>>)
           /\ (last.ok <=> kind = "mapped")
           /\ (kind = "mapped" => last.v = expected /\ Len(mem) = expected)

C3_Witness ==
    /\ last.op = "map_file"
    /\ ptype = "f32"
    /\ kind = "failed"
    /\ given = <<2, 2>>
    /\ last.v = 12

\* C4: after a successful map_file of a file written as the row-major
\* sequence of width * height samples, the image has the declared width and
\* height, width * height pixels, and img[(x, y)] is the sample written at
\* file position y * width + x, for every (x, y) on the image.
C4_MappedContent ==
    kind = "mapped" =>
        /\ width = given[1]
        /\ height = given[2]
        /\ Len(written) = width * height
        /\ Len(pixels) = width * height
        /\ \A c \in OnImage : Index(c[1], c[2]) = written[(c[2] * width) + c[1] + 1]
        /\ (last.op = "read" /\ <<last.x, last.y>> \in OnImage =>
               last.ok /\ last.v = written[(last.y * width) + last.x + 1])

C4_Witness ==
    /\ kind = "mapped"
    /\ ptype = "f32"
    /\ width = 2
    /\ height = 2
    /\ written = <<F32Bits(0), F32Bits(1000), F32Bits(-3), F32Bits(1000)>>
    /\ last.op = "read"
    /\ <<last.x, last.y>> = <<0, 1>>
    /\ last.v = F32Bits(-3)

\* C5: in every state reached by OwnedImage::new or a successful map_file
\* and any indexed writes and fills after it, the buffer holds
\* width * height pixels, dimensions() is the width and height given at
\* construction, and every access on the image addresses an offset inside
\* the buffer: no access on the image panics.
C5_BufferSize ==
    /\ kind \in {"owned", "mapped"} =>
          /\ Len(pixels) = width * height
          /\ dimensions = given
          /\ \A c \in OnImage :
                /\ InSlice(pixels, IndexOffset(width, c[1], c[2]))
                /\ InSlice(pixels, IndexMutOffset(width, c[1], c[2]))
    /\ kind = "panicked" => <<last.x, last.y>> \notin OnImage

C5_Witness ==
    /\ kind = "owned"
    /\ given = <<2, 2>>
    /\ last.op = "fill"
    /\ last.v = 1024
    /\ pixels = <<1024, 1024, 1024, 1024>>

\* C6: on an owned image, writing v at an (x, y) on the image through the
\* mutable index and then reading (x, y) returns exactly v.
C6_WriteReadRoundTrip ==
    (last.op = "write" /\ last.ok /\ <<last.x, last.y>> \in OnImage) =>
        Index(last.x, last.y) = last.v

C6_Witness ==
    /\ kind = "owned"
    /\ width = 2
    /\ height = 2
    /\ last.op = "write"
    /\ last.ok
    /\ <<last.x, last.y>> = <<1, 0>>
    /\ last.v = 1024
    /\ pixels = <<0, 1024, 0, 0>>

\* C7: a write at an (x, y) on an owned image changes only that pixel: every
\* other coordinate on the image reads the same value after the write as
\* before, and distinct coordinates on the image address distinct buffer
\* cells, cell y * width + x.
C7_WriteFrame ==
    [][(last'.op = "write" /\ last'.ok /\ <<last'.x, last'.y>> \in OnImage) =>
          /\ IndexMutOffset(width, last'.x, last'.y) = (last'.y * width) + last'.x
          /\ \A c \in OnImage :
                c # <<last'.x, last'.y>> =>
                    /\ IndexOf(pixels', width', c[1], c[2]) = Index(c[1], c[2])
                    /\ IndexMutOffset(width, c[1], c[2])
                          # IndexMutOffset(width, last'.x, last'.y)]_vars

C7_Witness ==
    /\ kind = "owned"
    /\ width = 2
    /\ height = 2
    /\ last.op = "write"
    /\ last.ok
    /\ <<last.x, last.y>> = <<0, 1>>
    /\ last.v = 0
    /\ pixels = <<1024, 1024, 0, 1024>>

\* C8: OwnedImage::new(w, h), for non-negative w and h, yields an image of
\* width w and height h whose buffer has exactly w * h samples, every one
\* of them reading as zero.
C8_NewIsZeroed ==
    last.op = "new" =>
        /\ kind = "owned"
        /\ width = last.x
        /\ height = last.y
        /\ Len(pixels) = last.x * last.y
        /\ \A i \in 1..Len(pixels) : pixels[i] = 0
        /\ \A c \in OnImage : Index(c[1], c[2]) = 0

C8_Witness ==
    /\ last.op = "new"
    /\ width = 1
    /\ height = 2
    /\ pixels = <<0, 0>>

\* C11: fill(v) overwrites every element of the buffer with v: after fill(v)
\* every (x, y) on the image reads v, whatever writes and fills came before,
\* and the buffer length and the dimensions are as they were.
C11_FillOverwritesAll ==
    [][last'.op = "fill" =>
          /\ \A i \in 1..Len(pixels') : pixels'[i] = last'.v
          /\ \A c \in OnImage :
                IndexOf(pixels', width', c[1], c[2]) = last'.v
          /\ Len(pixels') = Len(pixels)
          /\ <<width', height'>> = <<width, height>>]_vars

C11_Witness ==
    /\ kind = "owned"
    /\ ptype = "f32"
    /\ dimensions = <<1, 2>>
    /\ last.op = "fill"
    /\ last.v = F32Bits(1024)
    /\ pixels = <<F32Bits(1024), F32Bits(1024)>>

\* C14: every raw access img[(x, y)] that sample_image makes through
\* pixel_or_black has 0 <= x < width and 0 <= y < height and addresses an
\* offset inside the buffer, for sample coordinates on, left of, above,
\* right of and below the image: sampling makes no access that panics.
C14_RawAccessInRange ==
    smp.done =>
        /\ \A c \in smp.raw :
              /\ 0 <= c[1] /\ c[1] < width
              /\ 0 <= c[2] /\ c[2] < height
              /\ InSlice(pixels, IndexOffset(width, c[1], c[2]))
        /\ \A c \in OnImage :
              (c[1] \in {smp.u \div Sub, (smp.u \div Sub) + 1}
                 /\ c[2] \in {smp.v \div Sub, (smp.v \div Sub) + 1})
                  => c \in smp.raw

C14_Witness ==
    /\ smp.done
    /\ dimensions = <<2, 3>>
    /\ <<smp.u, smp.v>> = <<Sub + 1, -1>>
    /\ smp.raw = {<<1, 0>>}

\* C15: sample_image returns the combination
\* ((A*(1-fx) + B*fx)*(1-fy)) + ((C*(1-fx) + D*fx)*fy) of the four taps,
\* limited to 0..=32767 and then rounded to the nearest integer, the
\* rounding done once, on the final value; the result is in 0..=32767.
C15_ClampThenRound ==
    smp.done =>
        LET x0 == smp.u \div Sub
            y0 == smp.v \div Sub
            fx == smp.u - (x0 * Sub)
            fy == smp.v - (y0 * Sub)
            top == Stored(x0, y0) * (Sub - fx) + Stored(x0 + 1, y0) * fx
            bottom == Stored(x0, y0 + 1) * (Sub - fx)
                      + Stored(x0 + 1, y0 + 1) * fx
            exact == (top * (Sub - fy)) + (bottom * fy)
        IN /\ smp.rval \in 0..32767
           /\ IF exact <= 0 THEN smp.rval = 0
              ELSE IF exact >= 32767 * Sub * Sub THEN smp.rval = 32767
              ELSE Nearest(exact, Sub * Sub, smp.rval)

C15_Witness ==
    /\ smp.done
    /\ dimensions = <<2, 2>>
    /\ pixels = <<-3, 1024, -3, -3>>
    /\ <<smp.u, smp.v>> = <<1, 1>>
    /\ <<smp.a, smp.b, smp.c, smp.d>> = <<-3, 1024, -3, -3>>
    /\ smp.rval = 190

C13_UnitRoundTrip ==
    /\ unit.phase \in {"tagged", "untagged"} =>
          unit.tagged.dim = "px" /\ unit.tagged.value_unsafe = unit.bare
    /\ unit.phase = "untagged" => unit.out = unit.bare

C13_Witness ==
    /\ unit.phase = "untagged"
    /\ unit.bare = [ty |-> "f64", num |-> -3, nan |-> FALSE]
    /\ unit.out = [ty |-> "f64", num |-> -3, nan |-> FALSE]
====
